---- MODULE Spec2Model ----
(***************************************************************************)
(* Model of the permit metadata query layer of                             *)
(* src/backend/metadata/cosmos_db_service.py (class CosmosPermitMetaData). *)
(*                                                                         *)
(* Strings that the code trims or matches by regular expression are        *)
(* sequences of one-character strings.  Dates are the integer YYYYMMDD of  *)
(* the ISO string "YYYY-MM-DD" (integer order = string order); the empty   *)
(* string is 0 and a field absent from the stored permit is MissingDate.   *)
(* Python's None is NONE for string arguments and NoneInt for integers.    *)
(*                                                                         *)
(* Spec runs the five metadata tools; SpecResolve runs two of their        *)
(* invocations in a row and keeps both resolutions in hist; SpecRequest is *)
(* the retried search request of src/backend/aisearch/aisearch.py with its *)
(* attempts; SpecContent is get_permit_document_content of                 *)
(* src/backend/permit_agent/agent_langchain.py with its lookups; SpecTasks *)
(* interleaves concurrent invocations, one step per awaited network call.  *)
(***************************************************************************)
EXTENDS Integers, Sequences, FiniteSets, TLC

VARIABLES store, main_organization, pc, call, queries, searches, items, result,
          attempts, lookups, distinct_docs, hist, tasks

vars == <<store, main_organization, pc, call, queries, searches, items, result,
          attempts, lookups, distinct_docs, hist, tasks>>

----------------------------------------------------------------------------
(* Bounds of the model *)

MaxStoreLen == 2
ExtraRows == 1

(* Program constants *)

doc_len_issue == 20
doc_len_all == 30
CatalogTop == 20

NONE == "None"
NoneInt == 0 - 1
EmptyDate == 0
MissingDate == 0 - 1

----------------------------------------------------------------------------
(* Strings *)

Lower(ch) ==
    CASE ch = "P" -> "p"
      [] ch = "G" -> "g"
      [] ch = "N" -> "n"
      [] ch = "R" -> "r"
      [] ch = "U" -> "u"
      [] OTHER -> ch

LowerStr(s) == [i \in 1..Len(s) |-> Lower(s[i])]

RECURSIVE LStrip(_)
LStrip(s) == IF s # <<>> /\ Head(s) = " " THEN LStrip(Tail(s)) ELSE s

RECURSIVE RStrip(_)
RStrip(s) ==
    IF s # <<>> /\ s[Len(s)] = " " THEN RStrip(SubSeq(s, 1, Len(s) - 1)) ELSE s

(* str.strip() *)
Strip(s) == RStrip(LStrip(s))

(* RegexMatch(text, pattern, 'i') for a pattern of literal characters:     *)
(* the pattern occurs somewhere in the text, letter case ignored.          *)
RegexMatch(text, pattern) ==
    \E i \in 1..(Len(text) - Len(pattern) + 1) :
        LowerStr(SubSeq(text, i, i + Len(pattern) - 1)) = LowerStr(pattern)

ORG_PGN == <<"P", "G", "N">>
ORG_PGN_PADDED == <<" ", "P", "G", "N", " ">>
ORG_RU == <<"R", "U">>
ORG_UNKNOWN == <<"X">>
ORG_EMPTY == <<>>

PATH_PGN == <<"d", "/", "p", "g", "n", "/", "1">>
PATH_RU == <<"d", "/", "r", "u", "/", "2">>
PATH_OTHER == <<"d", "/", "3">>

----------------------------------------------------------------------------
(* Dates *)

YEAR(d) == d \div 10000
MONTH(d) == (d \div 100) % 100
IsDate(d) == d > 0

(* key=lambda x: x.get(field, '') *)
SortKey(d) == IF d = MissingDate THEN EmptyDate ELSE d

----------------------------------------------------------------------------
(* The metadata store: one row per (document c, permit p) pair of          *)
(* "FROM c JOIN p IN c.permits", in the order the store iterates them.     *)

Row(n, t, o, title, path, issue, exp) ==
    [permitNumber |-> n, permitType |-> t, organization |-> o,
     documentTitle |-> title, filepath |-> path,
     issueDate |-> issue, expirationDate |-> exp]

RowUniverse ==
    { Row(1, "PLO", ORG_PGN, "T1.pdf", PATH_PGN, 20200615, 20230115),
      Row(2, "KKPR", ORG_PGN, "T2.pdf", PATH_OTHER, 20210301, 20220101),
      Row(3, "PLO", ORG_RU, "T1.pdf", PATH_RU, EmptyDate, 20250601),
      Row(4, "PLO", ORG_RU, "T3.pdf", PATH_PGN, 20190101, MissingDate) }

RECURSIVE SeqsUpTo(_, _)
SeqsUpTo(S, n) ==
    IF n = 0 THEN { <<>> }
    ELSE LET shorter == SeqsUpTo(S, n - 1)
         IN  shorter \cup { Append(s, x) : s \in shorter, x \in S }

SmallStores == SeqsUpTo(RowUniverse, MaxStoreLen)

(* records in the years 2019, 2020 and 2021 *)
YearFixture ==
    << Row(1, "PLO", ORG_PGN, "T1.pdf", PATH_PGN, 20200615, 20200615),
       Row(2, "PLO", ORG_PGN, "T1.pdf", PATH_PGN, 20190501, 20190501),
       Row(3, "PLO", ORG_PGN, "T2.pdf", PATH_PGN, 20210301, 20210301) >>

(* dates "2022-06-01", "", "2023-01-01" *)
SortFixture ==
    << Row(1, "PLO", ORG_PGN, "T1.pdf", PATH_PGN, 20220601, 20220601),
       Row(2, "PLO", ORG_PGN, "T1.pdf", PATH_PGN, 20200101, EmptyDate),
       Row(3, "PLO", ORG_PGN, "T2.pdf", PATH_PGN, 20230101, 20230101) >>

(* more rows than either cap, dates not in store order *)
BigStore(t) ==
    [i \in 1..(doc_len_all + ExtraRows) |->
        Row(i, t, ORG_PGN, IF i % 2 = 0 THEN "T1.pdf" ELSE "T2.pdf", PATH_PGN,
            20200000 + (1 + ((i * 5) % 12)) * 100 + (1 + ((i * 7) % 28)),
            20230000 + (1 + ((i * 5) % 12)) * 100 + (1 + ((i * 7) % 28)))]

Stores == SmallStores \cup {YearFixture, SortFixture, BigStore("PLO"), BigStore("KKPR")}

----------------------------------------------------------------------------
(* Queries: the fixed text of the operation (base), the fragments appended *)
(* to it (conditions) and the named bindings (parameters).                 *)

Cond(f) == [frag |-> f, titles |-> <<>>]

(* f"c.documentTitle IN ({title_str})" *)
TitleIn(list_of_titles) == [frag |-> "c.documentTitle IN", titles |-> list_of_titles]

Param(n, v) == [name |-> n, value |-> v]

Query(b, c, p) == [base |-> b, conditions |-> c, parameters |-> p]

ParamNames(parameters) == { parameters[i].name : i \in 1..Len(parameters) }

ParamValue(parameters, n) ==
    LET i == CHOOSE j \in 1..Len(parameters) :
                 /\ parameters[j].name = n
                 /\ \A k \in 1..(j - 1) : parameters[k].name # n
    IN  parameters[i].value

SeqToSet(s) == { s[i] : i \in 1..Len(s) }

(* DateTimeAdd("mm", n, d) on the date part *)
DateTimeAdd(n, d) ==
    LET m0 == YEAR(d) * 12 + (MONTH(d) - 1) + n
    IN  (m0 \div 12) * 10000 + ((m0 % 12) + 1) * 100 + (d % 100)

(* already-expired without its permit-type literal *)
BaseHoldsAnyType(row, base, parameters, clock) ==
    CASE base = "issue" ->
            row.issueDate # MissingDate /\ row.issueDate # EmptyDate
      [] base = "expired" ->
            /\ row.expirationDate # MissingDate
            /\ row.expirationDate < ParamValue(parameters, "@currentDate")
      [] base = "interval" ->
            /\ IsDate(row.expirationDate)
            /\ row.expirationDate > clock
            /\ row.expirationDate <= DateTimeAdd(ParamValue(parameters, "@months_ahead"), clock)
            /\ row.permitType = ParamValue(parameters, "@documentType")
      [] OTHER -> TRUE

(* the WHERE part written in the query text of each operation.  The dates  *)
(* are compared as strings: "" precedes every date, and a date string      *)
(* precedes the timestamp of GetCurrentDateTime() of the same day.         *)
BaseHolds(row, base, parameters, clock) ==
    CASE base = "issue" ->
            row.issueDate # MissingDate /\ row.issueDate # EmptyDate
      [] base = "expired" ->
            /\ row.expirationDate # MissingDate
            /\ row.expirationDate < ParamValue(parameters, "@currentDate")
            /\ row.permitType = "PLO"
      [] base = "interval" ->
            /\ IsDate(row.expirationDate)
            /\ row.expirationDate > clock
            /\ row.expirationDate <= DateTimeAdd(ParamValue(parameters, "@months_ahead"), clock)
            /\ row.permitType = ParamValue(parameters, "@documentType")
      [] OTHER -> TRUE

CondHolds(row, c, parameters) ==
    CASE c.frag = "c.permitType = @permitType" ->
            row.permitType = ParamValue(parameters, "@permitType")
      [] c.frag = "YEAR(p.issueDate) >= @year" ->
            IsDate(row.issueDate) /\ YEAR(row.issueDate) >= ParamValue(parameters, "@year")
      [] c.frag = "YEAR(p.issueDate) <= @year" ->
            IsDate(row.issueDate) /\ YEAR(row.issueDate) <= ParamValue(parameters, "@year")
      [] c.frag = "YEAR(p.issueDate) = @year" ->
            IsDate(row.issueDate) /\ YEAR(row.issueDate) = ParamValue(parameters, "@year")
      [] c.frag = "MONTH(p.issueDate) = @month" ->
            IsDate(row.issueDate) /\ MONTH(row.issueDate) = ParamValue(parameters, "@month")
      [] c.frag = "YEAR(p.expirationDate) >= @year" ->
            IsDate(row.expirationDate) /\ YEAR(row.expirationDate) >= ParamValue(parameters, "@year")
      [] c.frag = "YEAR(p.expirationDate) <= @year" ->
            IsDate(row.expirationDate) /\ YEAR(row.expirationDate) <= ParamValue(parameters, "@year")
      [] c.frag = "YEAR(p.expirationDate) = @year" ->
            IsDate(row.expirationDate) /\ YEAR(row.expirationDate) = ParamValue(parameters, "@year")
      [] c.frag = "c.organization = @organization" ->
            row.organization = ParamValue(parameters, "@organization")
      [] c.frag = "RegexMatch(c.filepath, @organization, 'i')" ->
            RegexMatch(row.filepath, ParamValue(parameters, "@organization"))
      [] c.frag = "c.documentTitle IN" ->
            row.documentTitle \in SeqToSet(c.titles)
      [] OTHER -> FALSE

RowMatches(row, q, clock) ==
    /\ BaseHolds(row, q.base, q.parameters, clock)
    /\ \A i \in 1..Len(q.conditions) : CondHolds(row, q.conditions[i], q.parameters)

(* container_client.query_items(query, parameters), fully drained *)
query_items(rows, q, clock) == SelectSeq(rows, LAMBDA row : RowMatches(row, q, clock))

----------------------------------------------------------------------------
(* list.sort(key=lambda x: x.get(field, ''), reverse=...): stable in both  *)
(* directions (rows with equal keys keep their order).                     *)

KeyOf(row, field) ==
    SortKey(IF field = "issueDate" THEN row.issueDate ELSE row.expirationDate)

RECURSIVE Insert(_, _, _, _)
Insert(s, x, field, reverse) ==
    IF s = <<>> THEN <<x>>
    ELSE IF \/ reverse /\ KeyOf(Head(s), field) >= KeyOf(x, field)
            \/ ~reverse /\ KeyOf(Head(s), field) <= KeyOf(x, field)
         THEN <<Head(s)>> \o Insert(Tail(s), x, field, reverse)
         ELSE <<x>> \o s

RECURSIVE SortFrom(_, _, _, _)
SortFrom(acc, rest, field, reverse) ==
    IF rest = <<>> THEN acc
    ELSE SortFrom(Insert(acc, Head(rest), field, reverse), Tail(rest), field, reverse)

(* the reverse flag forgotten *)
SortItemsAscending(its, field, order_by) == SortFrom(<<>>, its, field, FALSE)

(* if order_by == 'latest': sort(reverse=True) else: sort() *)
SortItems(its, field, order_by) == SortFrom(<<>>, its, field, order_by = "latest")

(* items[:n] *)
Take(s, n) == SubSeq(s, 1, IF Len(s) < n THEN Len(s) ELSE n)

----------------------------------------------------------------------------
(* The organization catalog *)

RECURSIVE Distinct(_, _)
Distinct(seen, rest) ==
    IF rest = <<>> THEN seen
    ELSE IF Head(rest) \in SeqToSet(seen) THEN Distinct(seen, Tail(rest))
         ELSE Distinct(Append(seen, Head(rest)), Tail(rest))

(* SELECT DISTINCT TOP 20 c.organization FROM c *)
load_main_organizations(rows) ==
    Take(Distinct(<<>>, [i \in 1..Len(rows) |-> rows[i].organization]), CatalogTop)

(* if not self.main_organization: await self.load_main_organizations() *)
ensure_main_organizations_loaded(catalog, rows) ==
    IF catalog = <<>> THEN load_main_organizations(rows) ELSE catalog

----------------------------------------------------------------------------
(* Arguments and outcomes *)

Org(s) == [some |-> TRUE, str |-> s]
NoOrg == [some |-> FALSE, str |-> <<>>]

(* "if organization:" *)
Truthy(org) == org.some /\ org.str # <<>>

FailedSearch == [ok |-> FALSE, value |-> <<>>]
Found(ts) == [ok |-> TRUE, value |-> ts]

TitleLists == { <<>>, <<"T1.pdf">>, <<"T2.pdf", "T1.pdf">> }

(* what title_search_client.full_text_search can do: raise, or return hits *)
SearchOutcomes == {FailedSearch} \cup { Found(ts) : ts \in TitleLists }

(* [doc['titleWithExtension'] for doc in title_file_search['value']] *)
full_text_search(keyword, sr) == [keyword |-> keyword, ok |-> sr.ok, value |-> sr.value]

(* the returned string: an optional section title, the sentence or header  *)
(* line with the value formatted into it, and one block per rendered row   *)
ReturnedIn(section, text, n, blocks) ==
    [kind |-> "return", section |-> section, text |-> text, n |-> n, blocks |-> blocks]

Returned(text, n, blocks) == ReturnedIn("", text, n, blocks)

Raised(what) ==
    [kind |-> "raise", section |-> "", text |-> what, n |-> NoneInt, blocks |-> <<>>]

NoResult == [kind |-> "none", section |-> "", text |-> "", n |-> NoneInt, blocks |-> <<>>]

Outcome(catalog, qs, ss, its, res) ==
    [main_organization |-> catalog, queries |-> qs, searches |-> ss,
     items |-> its, result |-> res]

(* the f-string of a block reads item['issueDate'] / item['expirationDate'] *)
HasKeys(its, needIssue, needExp) ==
    \A i \in 1..Len(its) :
        /\ needIssue => its[i].issueDate # MissingDate
        /\ needExp => its[i].expirationDate # MissingDate

(* 'greater' and 'less' exchanged *)
YearFragSwapped(field, operator) ==
    IF field = "issueDate"
    THEN CASE operator = "greater" -> "YEAR(p.issueDate) <= @year"
           [] operator = "less" -> "YEAR(p.issueDate) >= @year"
           [] OTHER -> "YEAR(p.issueDate) = @year"
    ELSE CASE operator = "greater" -> "YEAR(p.expirationDate) <= @year"
           [] operator = "less" -> "YEAR(p.expirationDate) >= @year"
           [] OTHER -> "YEAR(p.expirationDate) = @year"

YearFrag(field, operator) ==
    IF field = "issueDate"
    THEN CASE operator = "greater" -> "YEAR(p.issueDate) >= @year"
           [] operator = "less" -> "YEAR(p.issueDate) <= @year"
           [] OTHER -> "YEAR(p.issueDate) = @year"
    ELSE CASE operator = "greater" -> "YEAR(p.expirationDate) >= @year"
           [] operator = "less" -> "YEAR(p.expirationDate) <= @year"
           [] OTHER -> "YEAR(p.expirationDate) = @year"

----------------------------------------------------------------------------
(* Organization predicates *)

(* the membership test ignored *)
issue_year_org_condition_always_equal(member) ==
    Cond("c.organization = @organization")

(* issued-by-year: equality for a catalog member, else a file-path regex *)
issue_year_org_condition(member) ==
    IF member THEN Cond("c.organization = @organization")
    ELSE Cond("RegexMatch(c.filepath, @organization, 'i')")

(* an empty allow-list taken for "no filter" *)
title_conditions_drop_empty(list_of_titles) ==
    IF list_of_titles = <<>> THEN <<>> ELSE << TitleIn(list_of_titles) >>

(* conditions.append(f"c.documentTitle IN ({title_str})") *)
title_conditions(list_of_titles) == << TitleIn(list_of_titles) >>

(* a failed title search taken for a search without hits *)
resolve_organization_failure_as_empty(org, catalog, sr) ==
    LET member == Strip(org.str) \in SeqToSet(catalog)
        search == full_text_search(Strip(org.str), sr)
    IN  IF ~Truthy(org)
        THEN [ok |-> TRUE, conditions |-> <<>>, parameters |-> <<>>, searches |-> <<>>]
        ELSE IF member
        THEN [ok |-> TRUE,
              conditions |-> << Cond("c.organization = @organization") >>,
              parameters |-> << Param("@organization", org.str) >>,
              searches |-> <<>>]
        ELSE [ok |-> TRUE,
              conditions |-> title_conditions(search.value),
              parameters |-> <<>>,
              searches |-> << search >>]

(* the "if organization:" block shared by expiring-by-year, already-expired, *)
(* expiring-within-interval and all-by-organization                          *)
resolve_organization(org, catalog, sr) ==
    LET member == Strip(org.str) \in SeqToSet(catalog)
        search == full_text_search(Strip(org.str), sr)
    IN  IF ~Truthy(org)
        THEN [ok |-> TRUE, conditions |-> <<>>, parameters |-> <<>>, searches |-> <<>>]
        ELSE IF member
        THEN [ok |-> TRUE,
              conditions |-> << Cond("c.organization = @organization") >>,
              parameters |-> << Param("@organization", org.str) >>,
              searches |-> <<>>]
        ELSE IF ~search.ok
        THEN [ok |-> FALSE, conditions |-> <<>>, parameters |-> <<>>,
              searches |-> << search >>]
        ELSE [ok |-> TRUE,
              conditions |-> title_conditions(search.value),
              parameters |-> <<>>,
              searches |-> << search >>]

----------------------------------------------------------------------------
(* get_list_documents_by_issue_year *)

(* the organization predicate kept next to the title allow-list *)
fallback_conditions_keep_organization(conditions, list_of_titles) ==
    conditions \o title_conditions(list_of_titles)

(* conditions = conditions[:-1]; conditions.append("c.documentTitle IN (...)") *)
fallback_conditions(conditions, list_of_titles) ==
    SubSeq(conditions, 1, Len(conditions) - 1) \o title_conditions(list_of_titles)

(* the header counting the matched records *)
issue_year_render_count_matched(catalog, qs, ss, its, order_by) ==
    LET sorted == SortItems(its, "issueDate", order_by)
        filtered_items == Take(sorted, doc_len_issue)
    IN  Outcome(catalog, qs, ss, sorted,
                Returned("List of documents issued is {n} items:",
                         Len(sorted), filtered_items))

issue_year_render(catalog, qs, ss, its, order_by) ==
    LET sorted == SortItems(its, "issueDate", order_by)
        filtered_items == Take(sorted, doc_len_issue)
    IN  Outcome(catalog, qs, ss, sorted,
                Returned("List of documents issued is {n} items:",
                         Len(filtered_items), filtered_items))

get_list_documents_by_issue_year(c, rows, catalog0, sr) ==
    LET yearOn == c.operator # NONE /\ c.year # NoneInt /\ c.year # 0
        monthOn == c.year # NoneInt /\ c.year # 0 /\ c.month # NoneInt /\ c.month # 0
        c1 == IF c.permit_type # NONE THEN << Cond("c.permitType = @permitType") >> ELSE <<>>
        p1 == IF c.permit_type # NONE THEN << Param("@permitType", c.permit_type) >> ELSE <<>>
        c2 == IF yearOn THEN Append(c1, Cond(YearFrag("issueDate", c.operator))) ELSE c1
        p2 == IF yearOn THEN Append(p1, Param("@year", c.year)) ELSE p1
        c3 == IF monthOn THEN Append(c2, Cond("MONTH(p.issueDate) = @month")) ELSE c2
        p3 == IF monthOn THEN Append(p2, Param("@month", c.month)) ELSE p2
        catalog == ensure_main_organizations_loaded(catalog0, rows)
        member == Strip(c.organization.str) \in SeqToSet(catalog)
        c4 == Append(c3, issue_year_org_condition(member))
        p4 == Append(p3, Param("@organization", c.organization.str))
        q1 == Query("issue", c4, p4)
        items1 == query_items(rows, q1, c.today)
        search == full_text_search(Strip(c.organization.str), sr)
        c5 == fallback_conditions(c4, search.value)
        q2 == Query("issue", c5, p4)
        items2 == query_items(rows, q2, c.today)
    IN  IF ~Truthy(c.organization)
        THEN issue_year_render(catalog0, <<>>, <<>>, <<>>, c.order_by)
        ELSE IF items1 # <<>>
        THEN issue_year_render(catalog, <<q1>>, <<>>, items1, c.order_by)
        ELSE IF ~search.ok
        THEN Outcome(catalog, <<q1>>, <<search>>, items1, Raised("search"))
        ELSE IF items2 = <<>>
        THEN Outcome(catalog, <<q1, q2>>, <<search>>, items2,
                     Returned("No documents found issued in this year.", NoneInt, <<>>))
        ELSE issue_year_render(catalog, <<q1, q2>>, <<search>>, items2, c.order_by)

----------------------------------------------------------------------------
(* get_list_documents_by_expiration_year *)

get_list_documents_by_expiration_year(c, rows, catalog0, sr) ==
    LET year == IF c.year = NoneInt THEN YEAR(c.today) ELSE c.year
        c1 == IF c.permit_type # NONE THEN << Cond("c.permitType = @permitType") >> ELSE <<>>
        p1 == IF c.permit_type # NONE THEN << Param("@permitType", c.permit_type) >> ELSE <<>>
        c2 == IF c.operator # NONE
              THEN Append(c1, Cond(YearFrag("expirationDate", c.operator))) ELSE c1
        p2 == IF c.operator # NONE THEN Append(p1, Param("@year", year)) ELSE p1
        catalog == IF Truthy(c.organization)
                   THEN ensure_main_organizations_loaded(catalog0, rows) ELSE catalog0
        r == resolve_organization(c.organization, catalog, sr)
        q == Query("expiration", c2 \o r.conditions, p2 \o r.parameters)
        its == query_items(rows, q, c.today)
        sorted == SortItems(its, "expirationDate", c.order_by)
    IN  IF ~r.ok
        THEN Outcome(catalog, <<>>, r.searches, <<>>, Raised("search"))
        ELSE IF its = <<>>
        THEN Outcome(catalog, <<q>>, r.searches, its,
                     Returned("No documents found expiring in this year.", NoneInt, <<>>))
        ELSE IF ~HasKeys(sorted, FALSE, TRUE)
        THEN Outcome(catalog, <<q>>, r.searches, sorted, Raised("KeyError"))
        ELSE Outcome(catalog, <<q>>, r.searches, sorted, Returned("", NoneInt, sorted))

----------------------------------------------------------------------------
(* get_list_documents_already_expired *)

(* the header shows the day after the date bound in the query *)
already_expired_result_other_date(current_date, sorted) ==
    Returned("Now is {n}. The following documents have already expired:",
             current_date + 1, sorted)

(* result_list = [f"Now is {current_date}. The following documents ..."] *)
already_expired_result(current_date, sorted) ==
    Returned("Now is {n}. The following documents have already expired:",
             current_date, sorted)

(* membership tested on the catalog as it was before the lazy load *)
get_list_documents_already_expired_stale_catalog(c, rows, catalog0, sr) ==
    LET current_date == c.today
        p0 == << Param("@currentDate", current_date) >>
        catalog == IF Truthy(c.organization)
                   THEN ensure_main_organizations_loaded(catalog0, rows) ELSE catalog0
        r == resolve_organization(c.organization, catalog0, sr)
        q == Query("expired", r.conditions, p0 \o r.parameters)
        its == query_items(rows, q, c.today)
        sorted == SortItems(its, "expirationDate", c.order_by)
    IN  IF ~r.ok
        THEN Outcome(catalog, <<>>, r.searches, <<>>, Raised("search"))
        ELSE IF its = <<>>
        THEN Outcome(catalog, <<q>>, r.searches, its,
                     Returned("No documents have expired.", NoneInt, <<>>))
        ELSE Outcome(catalog, <<q>>, r.searches, sorted,
                     already_expired_result(current_date, sorted))

get_list_documents_already_expired(c, rows, catalog0, sr) ==
    LET current_date == c.today
        p0 == << Param("@currentDate", current_date) >>
        catalog == IF Truthy(c.organization)
                   THEN ensure_main_organizations_loaded(catalog0, rows) ELSE catalog0
        r == resolve_organization(c.organization, catalog, sr)
        q == Query("expired", r.conditions, p0 \o r.parameters)
        its == query_items(rows, q, c.today)
        sorted == SortItems(its, "expirationDate", c.order_by)
    IN  IF ~r.ok
        THEN Outcome(catalog, <<>>, r.searches, <<>>, Raised("search"))
        ELSE IF its = <<>>
        THEN Outcome(catalog, <<q>>, r.searches, its,
                     Returned("No documents have expired.", NoneInt, <<>>))
        ELSE Outcome(catalog, <<q>>, r.searches, sorted,
                     already_expired_result(current_date, sorted))

----------------------------------------------------------------------------
(* get_list_document_by_expiration_interval *)

get_list_document_by_expiration_interval(c, rows, catalog0, sr) ==
    LET p0 == << Param("@months_ahead", c.months_ahead),
                 Param("@documentType", c.permit_type) >>
        catalog == IF Truthy(c.organization)
                   THEN ensure_main_organizations_loaded(catalog0, rows) ELSE catalog0
        r == resolve_organization(c.organization, catalog, sr)
        q == Query("interval", r.conditions, p0 \o r.parameters)
        its == query_items(rows, q, c.today)
    IN  IF ~r.ok
        THEN Outcome(catalog, <<>>, r.searches, <<>>, Raised("search"))
        ELSE IF its = <<>>
        THEN Outcome(catalog, <<q>>, r.searches, its,
                     Returned("No documents found expiring in the next {n} months.",
                              c.months_ahead, <<>>))
        ELSE Outcome(catalog, <<q>>, r.searches, its, Returned("", NoneInt, its))

----------------------------------------------------------------------------
(* get_list_all_documents_by_organization *)

(* PLO blocks come from filtered_items, the blocks of the other permit     *)
(* types from items                                                        *)
all_documents_blocks(permit_type, its) ==
    IF permit_type = "PLO" THEN Take(its, doc_len_all) ELSE its

get_list_all_documents_by_organization(c, rows, catalog0, sr) ==
    LET c1 == IF c.permit_type # NONE THEN << Cond("c.permitType = @permitType") >> ELSE <<>>
        p1 == IF c.permit_type # NONE THEN << Param("@permitType", c.permit_type) >> ELSE <<>>
        catalog == IF Truthy(c.organization)
                   THEN ensure_main_organizations_loaded(catalog0, rows) ELSE catalog0
        r == resolve_organization(c.organization, catalog, sr)
        q == Query("all", c1 \o r.conditions, p1 \o r.parameters)
        its == query_items(rows, q, c.today)
        blocks == all_documents_blocks(c.permit_type, its)
    IN  IF ~r.ok
        THEN Outcome(catalog, <<>>, r.searches, <<>>, Raised("search"))
        ELSE IF its = <<>>
        THEN Outcome(catalog, <<q>>, r.searches, its,
                     ReturnedIn("========Metadata DB Results========:",
                                "No documents found for the specified organization.",
                                NoneInt, <<>>))
        ELSE IF ~HasKeys(blocks, TRUE, c.permit_type = "PLO")
        THEN Outcome(catalog, <<q>>, r.searches, its, Raised("KeyError"))
        ELSE Outcome(catalog, <<q>>, r.searches, its,
                     ReturnedIn("========Metadata DB Results========:",
                                "List of documents for organization {organization} items:",
                                NoneInt, blocks))

----------------------------------------------------------------------------
(* Concurrent invocations on one CosmosPermitMetaData instance: coroutines *)
(* of one event loop, each running from one await to the next.  A task is  *)
(* one invocation with an organization; net is the list of its network     *)
(* calls, an event when the call is issued and one when it has answered.   *)

MaxTasks == 2

Tasks == 1..MaxTasks

TaskOps == {"issue_year", "expiration_interval"}
TaskOrgs == {ORG_PGN, ORG_UNKNOWN}

Begin(c) == [call |-> c, phase |-> "begin", n |-> NoneInt]
End(c, n) == [call |-> c, phase |-> "end", n |-> n]

NoTask ==
    [pc |-> "none", op |-> "none", organization |-> <<>>, batch |-> <<>>,
     tested |-> FALSE, seen |-> <<>>, member |-> FALSE,
     q |-> Query("none", <<>>, <<>>), net |-> <<>>, kind |-> "none"]

(* never loaded, whatever the catalog holds *)
needs_load_never(catalog) == FALSE

(* if not self.main_organization: *)
needs_load(catalog) == catalog = <<>>

(* every organization fetched so far already visible in the shared catalog *)
during_load_published(catalog, batch) == batch

(* items.append(item['organization']): the shared catalog is not touched *)
during_load(catalog, batch) == catalog

(* the fallback taken whatever the first query returned *)
after_first_query_always_search(rows) == "search"

(* if not items: fall back to the title search *)
after_first_query(rows) == IF rows = <<>> THEN "search" ELSE "done"

interval_parameters ==
    << Param("@months_ahead", 6), Param("@documentType", "PLO") >>

(* the code from the return of _ensure_main_organizations_loaded up to the *)
(* next await: the membership test, and the query or the title search      *)
after_ensure(t, catalog) ==
    LET member == Strip(t.organization) \in SeqToSet(catalog)
        t1 == [t EXCEPT !.tested = TRUE, !.seen = catalog, !.member = member]
    IN  IF t.op = "issue_year"
        THEN [t1 EXCEPT !.q = Query("issue", << issue_year_org_condition(member) >>,
                                    << Param("@organization", t.organization) >>),
                        !.net = Append(@, Begin("query")),
                        !.pc = "query1"]
        ELSE IF member
        THEN [t1 EXCEPT !.q = Query("interval",
                                    << Cond("c.organization = @organization") >>,
                                    interval_parameters
                                        \o << Param("@organization", t.organization) >>),
                        !.net = Append(@, Begin("query")),
                        !.pc = "query"]
        ELSE [t1 EXCEPT !.net = Append(@, Begin("search")), !.pc = "search"]

(* the code from the answer of the title search up to the next await *)
after_search(t, sr) ==
    IF ~sr.ok
    THEN [t EXCEPT !.net = Append(@, End("search", NoneInt)),
                   !.pc = "done", !.kind = "raise"]
    ELSE [t EXCEPT !.q = IF t.op = "issue_year"
                         THEN Query("issue", fallback_conditions(t.q.conditions, sr.value),
                                    t.q.parameters)
                         ELSE Query("interval", title_conditions(sr.value),
                                    interval_parameters),
                   !.net = @ \o << End("search", Len(sr.value)), Begin("query") >>,
                   !.pc = "query"]

----------------------------------------------------------------------------
(* Tool invocations *)

Call(op, permit_type, year, month, organization, operator, order_by, months_ahead, today) ==
    [op |-> op, permit_type |-> permit_type, year |-> year, month |-> month,
     organization |-> organization, operator |-> operator, order_by |-> order_by,
     months_ahead |-> months_ahead, today |-> today, keyword |-> NONE]

WithKeyword(c, keyword) == [c EXCEPT !.keyword = keyword]

NoCall == Call("none", NONE, NoneInt, NoneInt, NoOrg, NONE, NONE, NoneInt, NoneInt)

PermitTypes == {"PLO", "KKPR", "KKPRL", "Ijin Lingkungan"}
IssuePermitTypes == {NONE, "PLO", "KKPR"}
Years == {NoneInt, 2020}
Months == {NoneInt, 6}
Operators == {NONE, "equal", "greater", "less"}
OrderBys == {NONE, "latest", "earliest"}
Organizations == {NoOrg, Org(ORG_EMPTY), Org(ORG_PGN), Org(ORG_PGN_PADDED), Org(ORG_UNKNOWN)}
Todays == {20240101, 20230115}
IssueTodays == {20240101}
Keywords == {"kw"}
MonthsAhead == {6, 24}

Finish(c, out) ==
    /\ call' = c
    /\ main_organization' = out.main_organization
    /\ queries' = out.queries
    /\ searches' = out.searches
    /\ items' = out.items
    /\ result' = out.result
    /\ pc' = "returned"
    /\ UNCHANGED <<store, attempts, lookups, distinct_docs, hist, tasks>>

IssueYear ==
    /\ pc = "idle"
    /\ \E permit_type \in IssuePermitTypes, year \in Years, month \in Months,
          organization \in Organizations, operator \in Operators,
          order_by \in OrderBys, today \in IssueTodays, sr \in SearchOutcomes :
        LET c == Call("issue_year", permit_type, year, month, organization,
                      operator, order_by, NoneInt, today)
        IN  Finish(c, get_list_documents_by_issue_year(c, store, main_organization, sr))

ExpirationYear ==
    /\ pc = "idle"
    /\ \E permit_type \in {NONE, "PLO"}, year \in Years,
          organization \in Organizations, operator \in Operators,
          order_by \in OrderBys, today \in Todays, sr \in SearchOutcomes :
        LET c == Call("expiration_year", permit_type, year, NoneInt, organization,
                      operator, order_by, NoneInt, today)
        IN  Finish(c, get_list_documents_by_expiration_year(c, store, main_organization, sr))

AlreadyExpired ==
    /\ pc = "idle"
    /\ \E organization \in Organizations, order_by \in OrderBys,
          today \in Todays, sr \in SearchOutcomes :
        LET c == Call("already_expired", NONE, NoneInt, NoneInt, organization,
                      NONE, order_by, NoneInt, today)
        IN  Finish(c, get_list_documents_already_expired(c, store, main_organization, sr))

ExpirationInterval ==
    /\ pc = "idle"
    /\ \E months_ahead \in MonthsAhead, organization \in Organizations,
          today \in Todays, sr \in SearchOutcomes :
        LET c == Call("expiration_interval", "PLO", NoneInt, NoneInt, organization,
                      NONE, NONE, months_ahead, today)
        IN  Finish(c, get_list_document_by_expiration_interval(c, store, main_organization, sr))

AllByOrganization ==
    /\ pc = "idle"
    /\ \E permit_type \in PermitTypes, organization \in Organizations \ {NoOrg},
          keyword \in Keywords, sr \in SearchOutcomes :
        LET c == WithKeyword(Call("all_by_organization", permit_type, NoneInt, NoneInt,
                                  organization, NONE, NONE, NoneInt, NoneInt), keyword)
        IN  Finish(c, get_list_all_documents_by_organization(c, store, main_organization, sr))

(* the tool wrapper hands the string (or the exception) back to the agent *)
Return ==
    /\ pc = "returned"
    /\ pc' = "idle"
    /\ call' = NoCall
    /\ queries' = <<>>
    /\ searches' = <<>>
    /\ items' = <<>>
    /\ result' = NoResult
    /\ UNCHANGED <<store, main_organization, attempts, lookups, distinct_docs, hist, tasks>>

Init ==
    /\ store \in Stores
    /\ main_organization = <<>>
    /\ pc = "idle"
    /\ call = NoCall
    /\ queries = <<>>
    /\ searches = <<>>
    /\ items = <<>>
    /\ result = NoResult
    /\ attempts = <<>>
    /\ lookups = <<>>
    /\ distinct_docs = {}
    /\ hist = <<>>
    /\ tasks = [p \in Tasks |-> NoTask]

Next ==
    \/ IssueYear
    \/ ExpirationYear
    \/ AlreadyExpired
    \/ ExpirationInterval
    \/ AllByOrganization
    \/ Return

Spec == Init /\ [][Next]_vars

----------------------------------------------------------------------------
(* Vocabulary of the properties *)

Returns == pc = "returned" /\ result.kind = "return"

Catalogued(org) == Strip(org.str) \in SeqToSet(main_organization)

OrgFrags ==
    { "c.organization = @organization",
      "RegexMatch(c.filepath, @organization, 'i')",
      "c.documentTitle IN" }

YearFrags ==
    { "YEAR(p.issueDate) >= @year", "YEAR(p.issueDate) <= @year",
      "YEAR(p.issueDate) = @year", "YEAR(p.expirationDate) >= @year",
      "YEAR(p.expirationDate) <= @year", "YEAR(p.expirationDate) = @year" }

OrgConds(q) == SelectSeq(q.conditions, LAMBDA c : c.frag \in OrgFrags)

Frags(q) == { q.conditions[i].frag : i \in 1..Len(q.conditions) }

RowsOf(q) == query_items(store, q, call.today)

(* the permit-type, year and month predicates an issued-by-year call supplies *)
IssueYearSupplied ==
    LET t == call.permit_type # NONE
        y == call.operator # NONE /\ call.year # NoneInt
        m == call.year # NoneInt /\ call.month # NoneInt
        frag == CASE call.operator = "greater" -> "YEAR(p.issueDate) >= @year"
                  [] call.operator = "less" -> "YEAR(p.issueDate) <= @year"
                  [] OTHER -> "YEAR(p.issueDate) = @year"
    IN  Query("issue",
              (IF t THEN << Cond("c.permitType = @permitType") >> ELSE <<>>)
                 \o (IF y THEN << Cond(frag) >> ELSE <<>>)
                 \o (IF m THEN << Cond("MONTH(p.issueDate) = @month") >> ELSE <<>>),
              << Param("@permitType", call.permit_type), Param("@year", call.year),
                 Param("@month", call.month) >>)

Min(a, b) == IF a < b THEN a ELSE b

IssueDates(s) == [i \in 1..Len(s) |-> s[i].issueDate]
ExpirationDates(s) == [i \in 1..Len(s) |-> s[i].expirationDate]

----------------------------------------------------------------------------
(* C1: every issued-by-year call without an organization executes one      *)
(* metadata query with the base predicate and the supplied permit-type,    *)
(* year and month predicates, and renders the rows that query matches, up  *)
(* to the cap of 20.                                                       *)
C1_AbsentOrganizationStillQueries ==
    (pc = "returned" /\ call.op = "issue_year" /\ ~Truthy(call.organization)) =>
        /\ Len(queries) = 1
        /\ queries[1].base = "issue"
        /\ queries[1].conditions = IssueYearSupplied.conditions
        /\ result.kind = "return"
        /\ Len(result.blocks) = Min(Len(RowsOf(queries[1])), doc_len_issue)
        /\ SeqToSet(result.blocks) \subseteq SeqToSet(RowsOf(queries[1]))

----------------------------------------------------------------------------
(* C2: when no record matches the predicates of an issued-by-year call,    *)
(* the call returns exactly "No documents found issued in this year." and  *)
(* never a count header with zero items.                                   *)
C2_NoRecordMatches ==
    IF queries = <<>>
    THEN RowsOf(IssueYearSupplied) = <<>>
    ELSE \A i \in 1..Len(queries) : RowsOf(queries[i]) = <<>>

C2_EmptyResultSentence ==
    (Returns /\ call.op = "issue_year" /\ C2_NoRecordMatches) =>
        /\ result.text = "No documents found issued in this year."
        /\ result.n = NoneInt
        /\ result.blocks = <<>>

----------------------------------------------------------------------------
(* C3: when the organization is given, is not in the catalog and the fuzzy *)
(* title search returns zero titles, the query carries the (empty) title   *)
(* allow-list predicate, matches zero records, and the operation returns   *)
(* its empty-result sentence: the filter is never dropped.                 *)
EmptySentence(op) ==
    CASE op = "issue_year" -> "No documents found issued in this year."
      [] op = "expiration_year" -> "No documents found expiring in this year."
      [] op = "already_expired" -> "No documents have expired."
      [] op = "expiration_interval" -> "No documents found expiring in the next {n} months."
      [] op = "all_by_organization" -> "No documents found for the specified organization."
      [] OTHER -> ""

C3_Case ==
    /\ pc = "returned"
    /\ Truthy(call.organization)
    /\ ~Catalogued(call.organization)
    /\ searches # <<>>
    /\ searches[1].ok
    /\ searches[1].value = <<>>

----------------------------------------------------------------------------
----------------------------------------------------------------------------
(* C5: in issued-by-year and expiring-by-year an applied year predicate    *)
(* compares the date's year with = for 'equal', >= for 'greater' and <=    *)
(* for 'less'; on records of 2019, 2020 and 2021 with year 2020 these      *)
(* match {2020}, {2020, 2021} and {2019, 2020}.                            *)
C5_Compare(operator, a, b) ==
    CASE operator = "greater" -> a >= b
      [] operator = "less" -> a <= b
      [] OTHER -> a = b

C5_Date(row) == IF call.op = "issue_year" THEN row.issueDate ELSE row.expirationDate

C5_WithoutYear(q) ==
    [q EXCEPT !.conditions = SelectSeq(q.conditions, LAMBDA c : c.frag \notin YearFrags)]

C5_Years(rows) == { YEAR(C5_Date(rows[i])) : i \in 1..Len(rows) }

C5_Expected(operator) ==
    CASE operator = "greater" -> {2020, 2021}
      [] operator = "less" -> {2019, 2020}
      [] OTHER -> {2020}

C5_YearPredicateInclusive ==
    (pc = "returned" /\ call.op \in {"issue_year", "expiration_year"}) =>
        \A i \in 1..Len(queries) :
            (Frags(queries[i]) \cap YearFrags # {}) =>
                LET q == queries[i]
                    y == ParamValue(q.parameters, "@year")
                    others == RowsOf(C5_WithoutYear(q))
                IN  /\ call.operator \in {"equal", "greater", "less"}
                    /\ RowsOf(q) = SelectSeq(others, LAMBDA row :
                           /\ IsDate(C5_Date(row))
                           /\ C5_Compare(call.operator, YEAR(C5_Date(row)), y))
                    /\ (store = YearFixture /\ others = store /\ y = 2020) =>
                           C5_Years(RowsOf(q)) = C5_Expected(call.operator)

(* reached: 'greater' 2020 on the three-year fixture renders 2020 and 2021 *)
C5_Witness ==
    /\ Returns
    /\ call.op = "issue_year"
    /\ store = YearFixture
    /\ call.operator = "greater"
    /\ call.year = 2020
    /\ Len(queries) = 1
    /\ C5_Years(result.blocks) = {2020, 2021}

----------------------------------------------------------------------------
(* C6: every record rendered by already-expired has permit type PLO and an *)
(* expiration date strictly earlier than the call's current date (in the   *)
(* order of the date strings), whatever the organization, the ordering and *)
(* the resolution path.                                                    *)
C6_ExpiredOnlyPLO ==
    (pc = "returned" /\ call.op = "already_expired") =>
        \A i \in 1..Len(result.blocks) :
            /\ result.blocks[i].permitType = "PLO"
            /\ result.blocks[i].expirationDate # MissingDate
            /\ result.blocks[i].expirationDate < call.today
            /\ result.blocks[i] \in SeqToSet(store)

(* reached: a list is rendered while the store holds an expired record of  *)
(* another permit type that passes the organization predicate              *)
C6_Witness ==
    /\ Returns
    /\ call.op = "already_expired"
    /\ result.blocks # <<>>
    /\ Truthy(call.organization)
    /\ \E i \in 1..Len(store) :
          /\ store[i].permitType # "PLO"
          /\ IsDate(store[i].expirationDate)
          /\ store[i].expirationDate < call.today
          /\ \A j \in 1..Len(queries[1].conditions) :
                CondHolds(store[i], queries[1].conditions[j], queries[1].parameters)

----------------------------------------------------------------------------
(* C7: in issued-by-year with more matching records than the cap of 20,    *)
(* the rendered records are exactly the 20 with the latest issue dates for *)
(* 'latest' and the 20 with the earliest for 'earliest': the cut is made   *)
(* on the sorted sequence.                                                 *)
C7_Matching ==
    IF queries = <<>> THEN RowsOf(IssueYearSupplied) ELSE RowsOf(queries[Len(queries)])

C7_Unrendered == SeqToSet(C7_Matching) \ SeqToSet(result.blocks)

C7_TruncationAfterSort ==
    (Returns /\ call.op = "issue_year" /\ call.order_by \in {"latest", "earliest"}
        /\ Len(C7_Matching) > doc_len_issue) =>
        /\ Len(result.blocks) = doc_len_issue
        /\ SeqToSet(result.blocks) \subseteq SeqToSet(C7_Matching)
        /\ \A i \in 1..Len(result.blocks) : \A r \in C7_Unrendered :
              IF call.order_by = "latest"
              THEN result.blocks[i].issueDate >= r.issueDate
              ELSE result.blocks[i].issueDate <= r.issueDate

----------------------------------------------------------------------------
(* C8: the sorted operations order the records by the date field, a        *)
(* missing or empty date counting as the empty string: 'latest' is         *)
(* descending with the empty dates last, 'earliest' ascending with the     *)
(* empty dates first.                                                      *)
C8_Date(row) == IF call.op = "issue_year" THEN row.issueDate ELSE row.expirationDate

C8_Key(row) == IF C8_Date(row) \in {MissingDate, EmptyDate} THEN 0 ELSE C8_Date(row)

C8_Count(s, row) == Cardinality({ i \in 1..Len(s) : s[i] = row })

C8_SortedByDate ==
    (pc = "returned" /\ call.op \in {"issue_year", "expiration_year", "already_expired"}
        /\ call.order_by \in {"latest", "earliest"}) =>
        /\ \A i \in 1..Len(items) : \A j \in (i + 1)..Len(items) :
              IF call.order_by = "latest"
              THEN C8_Key(items[i]) >= C8_Key(items[j])
              ELSE C8_Key(items[i]) <= C8_Key(items[j])
        /\ queries # <<>> =>
              /\ Len(items) = Len(RowsOf(queries[Len(queries)]))
              /\ \A r \in SeqToSet(items) :
                    C8_Count(items, r) = C8_Count(RowsOf(queries[Len(queries)]), r)
        /\ (store = SortFixture /\ call.op = "expiration_year" /\ Len(items) = 3) =>
              ExpirationDates(items) =
                  IF call.order_by = "latest"
                  THEN << 20230101, 20220601, EmptyDate >>
                  ELSE << EmptyDate, 20220601, 20230101 >>

(* reached: dates "2022-06-01", "", "2023-01-01" rendered latest first     *)
C8_Witness ==
    /\ Returns
    /\ call.op = "expiration_year"
    /\ call.order_by = "latest"
    /\ store = SortFixture
    /\ ExpirationDates(result.blocks) = << 20230101, 20220601, EmptyDate >>

----------------------------------------------------------------------------
(* C9: results are ascending only when order_by is 'earliest'; for every   *)
(* other accepted value, None included, they are descending as for         *)
(* 'latest'.                                                               *)
C9_AscendingOnlyWhenEarliest ==
    (pc = "returned" /\ call.op \in {"issue_year", "expiration_year", "already_expired"}) =>
        \A i \in 1..Len(items) : \A j \in (i + 1)..Len(items) :
            IF call.order_by = "earliest"
            THEN C8_Key(items[i]) <= C8_Key(items[j])
            ELSE C8_Key(items[i]) >= C8_Key(items[j])

----------------------------------------------------------------------------
(* C10: all-by-organization renders at most 30 record blocks, for every    *)
(* permit type and any number of matching records.                         *)
C10_AtMostThirtyBlocks ==
    (Returns /\ call.op = "all_by_organization") =>
        Len(result.blocks) <= doc_len_all

----------------------------------------------------------------------------
(* C11: every all-by-organization call that returns has issued one content *)
(* search with the caller's keyword and one metadata query, and its        *)
(* payload carries two labelled sections, also when the metadata query     *)
(* matched no record.                                                      *)
C11_Labels == IF result.section = "" THEN {} ELSE {result.section}

C11_BothBackendsTwoSections ==
    (Returns /\ call.op = "all_by_organization") =>
        /\ Len(queries) = 1
        /\ Len(lookups) = 1
        /\ lookups[1].keyword = call.keyword
        /\ Cardinality(C11_Labels) = 2

----------------------------------------------------------------------------
(* C12: with an operator and no year, every query of an issued-by-year or  *)
(* expiring-by-year call carries the year predicate of that operator,      *)
(* bound to the current year.                                              *)
C12_Frag ==
    IF call.op = "issue_year"
    THEN CASE call.operator = "greater" -> "YEAR(p.issueDate) >= @year"
           [] call.operator = "less" -> "YEAR(p.issueDate) <= @year"
           [] OTHER -> "YEAR(p.issueDate) = @year"
    ELSE CASE call.operator = "greater" -> "YEAR(p.expirationDate) >= @year"
           [] call.operator = "less" -> "YEAR(p.expirationDate) <= @year"
           [] OTHER -> "YEAR(p.expirationDate) = @year"

C12_YearDefaultsToCurrentYear ==
    (/\ pc = "returned"
     /\ call.op \in {"issue_year", "expiration_year"}
     /\ call.operator # NONE
     /\ call.year = NoneInt) =>
        \A i \in 1..Len(queries) :
            /\ C12_Frag \in Frags(queries[i])
            /\ "@year" \in ParamNames(queries[i].parameters)
            /\ ParamValue(queries[i].parameters, "@year") = YEAR(call.today)

----------------------------------------------------------------------------
(* C13: when the trimmed organization is a catalog member, the equality    *)
(* predicate is bound to the trimmed string, so the query matches the      *)
(* records of that organization whatever whitespace surrounds the input.   *)
C13_Trimmed(q) ==
    [q EXCEPT !.parameters =
        [i \in 1..Len(q.parameters) |->
            IF q.parameters[i].name = "@organization"
            THEN Param("@organization", Strip(call.organization.str))
            ELSE q.parameters[i]]]

C13_EqualityBoundToTrimmed ==
    (pc = "returned" /\ Truthy(call.organization) /\ Catalogued(call.organization)) =>
        \A i \in 1..Len(queries) :
            "c.organization = @organization" \in Frags(queries[i]) =>
                /\ ParamValue(queries[i].parameters, "@organization")
                       = Strip(call.organization.str)
                /\ RowsOf(queries[i]) = RowsOf(C13_Trimmed(queries[i]))

----------------------------------------------------------------------------
(* _make_request of src/backend/aisearch/aisearch.py: one POST per attempt, *)
(* wrapped by tenacity's retry                                             *)

max_attempts == 3

TransientStatuses == {429, 500, 502, 503, 504}
OtherStatuses == {400, 404}
Statuses == {200} \cup TransientStatuses \cup OtherStatuses

(* exceptions session.post can raise: the three retried types and one other *)
PostErrors == {"ClientError", "TimeoutError", "ConnectionError", "ValueError"}

Response(status) == [kind |-> "response", status |-> status, error |-> NONE]
PostError(error) == [kind |-> "error", status |-> 0, error |-> error]

AttemptOutcomes ==
    { Response(s) : s \in Statuses } \cup { PostError(e) : e \in PostErrors }

(* the exception one execution of the body raises, NONE when it returns *)
make_request_body(o) ==
    IF o.kind = "error" THEN o.error
    ELSE IF o.status # 200
    THEN IF o.status \in TransientStatuses THEN "TimeoutError" ELSE "Exception"
    ELSE NONE

(* every exception retried *)
retry_if_any_exception(exc) == TRUE

retry_if_exception_type(exc) ==
    exc \in {"ClientError", "TimeoutError", "ConnectionError"}

(* one more attempt allowed *)
stop_after_one_more(attempt_number) == attempt_number >= max_attempts + 1

stop_after_attempt(attempt_number) == attempt_number >= max_attempts

RequestCall == [NoCall EXCEPT !.op = "_make_request"]

SendRequest ==
    /\ pc = "idle"
    /\ pc' = "sending"
    /\ call' = RequestCall
    /\ attempts' = <<>>
    /\ UNCHANGED <<store, main_organization, queries, searches, items, result,
                   lookups, distinct_docs, hist, tasks>>

(* one execution of the body and tenacity's decision on its outcome *)
Attempt ==
    /\ pc = "sending"
    /\ \E o \in AttemptOutcomes :
        LET exc == make_request_body(o)
            n == Len(attempts) + 1
        IN  /\ attempts' = Append(attempts, o)
            /\ IF exc = NONE
               THEN pc' = "returned" /\ result' = Returned("response.json()", NoneInt, <<>>)
               ELSE IF ~retry_if_exception_type(exc)
               THEN pc' = "returned" /\ result' = Raised(exc)
               ELSE IF stop_after_attempt(n)
               THEN pc' = "returned" /\ result' = Raised("RetryError")
               ELSE pc' = "backoff" /\ result' = result
    /\ UNCHANGED <<store, main_organization, call, queries, searches, items,
                   lookups, distinct_docs, hist, tasks>>

(* wait_exponential(multiplier=1, min=2, max=10): sleep, then try again *)
Backoff ==
    /\ pc = "backoff"
    /\ pc' = "sending"
    /\ UNCHANGED <<store, main_organization, call, queries, searches, items,
                   result, attempts, lookups, distinct_docs, hist, tasks>>

(* the caller has the response or the exception *)
RequestDone ==
    /\ pc = "returned"
    /\ pc' = "idle"
    /\ call' = NoCall
    /\ result' = NoResult
    /\ attempts' = <<>>
    /\ UNCHANGED <<store, main_organization, queries, searches, items,
                   lookups, distinct_docs, hist, tasks>>

NextRequest ==
    \/ SendRequest
    \/ Attempt
    \/ Backoff
    \/ RequestDone

SpecRequest == Init /\ [][NextRequest]_vars

----------------------------------------------------------------------------
(* C14: a request whose attempts fail transiently (status 429, 500, 502,   *)
(* 503 or 504, or a connection or timeout error) is attempted at most 3    *)
(* times; it ends after the third failure, with a failure raised to the    *)
(* caller and not before; a successful attempt is the last one and its     *)
(* response is returned.                                                   *)
C14_Transient(o) ==
    \/ o.kind = "response" /\ o.status \in {429, 500, 502, 503, 504}
    \/ o.kind = "error" /\ o.error \in {"ClientError", "TimeoutError", "ConnectionError"}

C14_AtMostThreeAttempts ==
    call.op = "_make_request" =>
        /\ Len(attempts) <= 3
        /\ \A i \in 1..Len(attempts) :
              (attempts[i].kind = "response" /\ attempts[i].status = 200) =>
                  /\ i = Len(attempts)
                  /\ pc = "returned"
                  /\ result.kind = "return"
        /\ (\A i \in 1..Len(attempts) : C14_Transient(attempts[i])) =>
              IF Len(attempts) = 3
              THEN pc = "returned" /\ result.kind = "raise"
              ELSE pc \in {"sending", "backoff"}

(* reached: three transient failures, the call ended with a failure *)
C14_Witness ==
    /\ call.op = "_make_request"
    /\ pc = "returned"
    /\ Len(attempts) = 3
    /\ \A i \in 1..3 : C14_Transient(attempts[i])
    /\ attempts[1].status = 503
    /\ result.kind = "raise"

----------------------------------------------------------------------------
(* C15: a response with an error status outside 429, 500, 502, 503, 504    *)
(* ends the request with that attempt: the error is raised to the caller   *)
(* and no further attempt is made.                                         *)
C15_NonTransient(o) ==
    o.kind = "response" /\ o.status # 200 /\ o.status \notin {429, 500, 502, 503, 504}

C15_NonTransientNotRetried ==
    call.op = "_make_request" =>
        /\ \A i \in 1..Len(attempts) :
              C15_NonTransient(attempts[i]) =>
                  /\ i = Len(attempts)
                  /\ pc = "returned"
                  /\ result.kind = "raise"
                  /\ result.text = "Exception"
        /\ (attempts # <<>> /\ C15_NonTransient(attempts[1])) => Len(attempts) = 1

(* reached: the first response is a 404 and the call has failed *)
C15_Witness ==
    /\ call.op = "_make_request"
    /\ attempts = << Response(404) >>
    /\ pc = "returned"
    /\ result = Raised("Exception")

----------------------------------------------------------------------------
(* get_permit_document_content of src/backend/permit_agent/agent_langchain.py *)
(* over MultiSourceSearch of src/backend/azure_service_client/azure_ai_search.py *)

filter_cap == 10

(* a search hit; a key the service left out is NONE, an empty string is "" *)
Hit(title, content, filepath) ==
    [title |-> title, content |-> content, filepath |-> filepath]

TruthyStr(x) == x # NONE /\ x # ""

ManyDocs ==
    << "d01", "d02", "d03", "d04", "d05", "d06", "d07", "d08", "d09", "d10", "d11" >>

TitleHitLists ==
    { <<>>,
      << Hit("A", NONE, "a.pdf") >>,
      << Hit("A", NONE, "a.pdf"), Hit("A", NONE, "a.pdf") >>,
      << Hit("A", NONE, "a.pdf"), Hit("B", NONE, "b.pdf") >>,
      << Hit("A", NONE, NONE) >>,
      << Hit("A", NONE, "") >>,
      << Hit("", NONE, "") >>,
      [i \in 1..Len(ManyDocs) |-> Hit("M", NONE, ManyDocs[i])] }

ContentHits ==
    { Hit("A", "text a", "a.pdf"), Hit("B", "text b", "b.pdf"),
      Hit("", "text c", "c.pdf"), Hit("A", "", "a.pdf"), Hit(NONE, NONE, NONE) }

ContentHitLists ==
    {<<>>} \cup { <<h>> : h \in ContentHits }
           \cup { <<h, g>> : h \in ContentHits, g \in ContentHits }

FailedLookup == [ok |-> FALSE, hits |-> <<>>]
TitleOutcomes == {FailedLookup} \cup { [ok |-> TRUE, hits |-> hs] : hs \in TitleHitLists }
ContentOutcomes == {FailedLookup} \cup { [ok |-> TRUE, hits |-> hs] : hs \in ContentHitLists }

(* one request to a search index, as the service saw and answered it *)
Lookup(index, keyword, scoped, filter, o) ==
    [index |-> index, keyword |-> keyword, scoped |-> scoped, filter |-> filter,
     ok |-> o.ok, hits |-> o.hits]

(* hits without filepath and title counted as a document too *)
get_distinct_documents_unfiltered(o) ==
    IF ~o.ok THEN {}
    ELSE { (IF o.hits[i].filepath # NONE THEN o.hits[i].filepath
            ELSE IF o.hits[i].title # NONE THEN o.hits[i].title ELSE "") :
           i \in 1..Len(o.hits) }

(* list(set(doc.get('filepath', doc.get('title', '')) ... if filepath or title)) *)
get_distinct_documents(o) ==
    IF ~o.ok THEN {}
    ELSE { (IF o.hits[i].filepath # NONE THEN o.hits[i].filepath
            ELSE IF o.hits[i].title # NONE THEN o.hits[i].title ELSE "") :
           i \in { j \in 1..Len(o.hits) :
                     TruthyStr(o.hits[j].filepath) \/ TruthyStr(o.hits[j].title) } }

(* document_list[:10] of a list whose order is that of a Python set *)
document_filters(document_list) ==
    IF Cardinality(document_list) <= filter_cap THEN {document_list}
    ELSE { f \in SUBSET document_list : Cardinality(f) = filter_cap }

(* the hits search_content_filtered hands back: {"value": []} on any error *)
search_content_filtered(o) == IF o.ok THEN o.hits ELSE <<>>

(* hits with a title but no content rendered too *)
citable_by_content(hits) ==
    SelectSeq(hits, LAMBDA doc : TruthyStr(doc.content))

(* if title and content: results.append(...) *)
citable(hits) ==
    SelectSeq(hits, LAMBDA doc : TruthyStr(doc.title) /\ TruthyStr(doc.content))

content_result(hits) ==
    IF citable(hits) # <<>>
    THEN Returned("[{filepath}, Page {chunking_id}]: {content}", Len(citable(hits)),
                  citable(hits))
    ELSE Returned("No relevant content found for: {keyword}", NoneInt, <<>>)

----------------------------------------------------------------------------
(* the steps of get_permit_document_content, one per awaited search request *)

ContentCall(keyword) ==
    WithKeyword([NoCall EXCEPT !.op = "get_permit_document_content"], keyword)

ContentStart ==
    /\ pc = "idle"
    /\ \E keyword \in Keywords : call' = ContentCall(keyword)
    /\ pc' = "distinct"
    /\ lookups' = <<>>
    /\ distinct_docs' = {}
    /\ UNCHANGED <<store, main_organization, queries, searches, items, result,
                   attempts, hist, tasks>>

(* step 1: the title index; a failure is swallowed into an empty list *)
GetDistinctDocuments ==
    /\ pc = "distinct"
    /\ \E o \in TitleOutcomes :
        /\ lookups' = Append(lookups, Lookup("title", call.keyword, FALSE, {}, o))
        /\ distinct_docs' = get_distinct_documents(o)
        /\ pc' = IF get_distinct_documents(o) = {} THEN "unscoped" ELSE "scoped"
    /\ UNCHANGED <<store, main_organization, call, queries, searches, items, result,
                   attempts, hist, tasks>>

(* step 2: the content index filtered by filepath; a failure is swallowed *)
SearchContentFiltered ==
    /\ pc = "scoped"
    /\ \E o \in ContentOutcomes, filter \in document_filters(distinct_docs) :
        /\ lookups' = Append(lookups, Lookup("content", call.keyword, TRUE, filter, o))
        /\ result' = content_result(search_content_filtered(o))
    /\ pc' = "returned"
    /\ UNCHANGED <<store, main_organization, call, queries, searches, items,
                   attempts, distinct_docs, hist, tasks>>

(* no distinct document: the unfiltered search inside the try block *)
UnscopedSearch ==
    /\ pc = "unscoped"
    /\ \E o \in ContentOutcomes :
        /\ lookups' = Append(lookups, Lookup("content", call.keyword, FALSE, {}, o))
        /\ IF o.ok
           THEN pc' = "returned" /\ result' = content_result(o.hits)
           ELSE pc' = "except" /\ result' = result
    /\ UNCHANGED <<store, main_organization, call, queries, searches, items,
                   attempts, distinct_docs, hist, tasks>>

(* except Exception: the unfiltered search again; its failure propagates *)
ExceptFallback ==
    /\ pc = "except"
    /\ \E o \in ContentOutcomes :
        /\ lookups' = Append(lookups, Lookup("content", call.keyword, FALSE, {}, o))
        /\ result' = IF o.ok THEN content_result(o.hits) ELSE Raised("search")
    /\ pc' = "returned"
    /\ UNCHANGED <<store, main_organization, call, queries, searches, items,
                   attempts, distinct_docs, hist, tasks>>

ContentDone ==
    /\ pc = "returned"
    /\ pc' = "idle"
    /\ call' = NoCall
    /\ result' = NoResult
    /\ lookups' = <<>>
    /\ distinct_docs' = {}
    /\ UNCHANGED <<store, main_organization, queries, searches, items, attempts, hist, tasks>>

NextContent ==
    \/ ContentStart
    \/ GetDistinctDocuments
    \/ SearchContentFiltered
    \/ UnscopedSearch
    \/ ExceptFallback
    \/ ContentDone

SpecContent == Init /\ [][NextContent]_vars

----------------------------------------------------------------------------
(* C17: get_permit_document_content queries the title index first; in a   *)
(* run in which no search request fails it then issues exactly one content *)
(* query: restricted to the documents found when the title query found at  *)
(* least one, unrestricted when it found none; never both.                 *)
C17_Documents(hits) ==
    { (IF hits[i].filepath # NONE THEN hits[i].filepath ELSE hits[i].title) :
      i \in { j \in 1..Len(hits) :
                \/ hits[j].filepath \notin {NONE, ""}
                \/ hits[j].title \notin {NONE, ""} } }

C17_TitleFirstThenOneContentQuery ==
    call.op = "get_permit_document_content" =>
        /\ lookups # <<>> => lookups[1].index = "title"
        /\ \A i \in 2..Len(lookups) : lookups[i].index = "content"
        /\ (\A i \in 1..Len(lookups) : lookups[i].ok) =>
              /\ Len(lookups) <= 2
              /\ pc = "returned" => Len(lookups) = 2 /\ result.kind = "return"
              /\ Len(lookups) = 2 =>
                    IF C17_Documents(lookups[1].hits) # {}
                    THEN /\ lookups[2].scoped
                         /\ lookups[2].filter # {}
                         /\ lookups[2].filter \subseteq C17_Documents(lookups[1].hits)
                    ELSE ~lookups[2].scoped /\ lookups[2].filter = {}

(* reached: two documents found, the content query restricted to them *)
C17_Witness ==
    /\ call.op = "get_permit_document_content"
    /\ pc = "returned"
    /\ Len(lookups) = 2
    /\ lookups[1].ok /\ lookups[2].ok
    /\ lookups[2].scoped
    /\ lookups[2].filter = {"a.pdf", "b.pdf"}

----------------------------------------------------------------------------
(* C18: when the title query or the restricted content query fails,        *)
(* exactly one unrestricted content query is issued as the fallback; when  *)
(* that one fails too the failure is raised and nothing more is queried.   *)
C18_Unscoped ==
    { i \in 1..Len(lookups) : lookups[i].index = "content" /\ ~lookups[i].scoped }

C18_OneFallbackQuery ==
    (/\ call.op = "get_permit_document_content"
     /\ pc = "returned"
     /\ \E i \in 1..Len(lookups) :
           ~lookups[i].ok /\ (lookups[i].index = "title" \/ lookups[i].scoped)) =>
        /\ Cardinality(C18_Unscoped) = 1
        /\ \A i \in C18_Unscoped :
              /\ i = Len(lookups)
              /\ IF lookups[i].ok THEN result.kind = "return" ELSE result.kind = "raise"

----------------------------------------------------------------------------
(* C19: every entry of the returned content comes from a hit of the last   *)
(* search with a non-empty title and a non-empty content, and every such   *)
(* hit is rendered, on the normal path and on the fallback path.           *)
C19_Citable(doc) ==
    doc.title \notin {NONE, ""} /\ doc.content \notin {NONE, ""}

C19_OnlyTitledContent ==
    (call.op = "get_permit_document_content" /\ pc = "returned"
        /\ result.kind = "return") =>
        /\ \A i \in 1..Len(result.blocks) : C19_Citable(result.blocks[i])
        /\ result.blocks = SelectSeq(lookups[Len(lookups)].hits, C19_Citable)

(* reached: the fallback search returned a hit without title next to a     *)
(* citable one, and only the citable one is rendered                       *)
C19_Witness ==
    /\ call.op = "get_permit_document_content"
    /\ pc = "returned"
    /\ Len(lookups) = 3
    /\ lookups[3].hits = << Hit("", "text c", "c.pdf"), Hit("A", "text a", "a.pdf") >>
    /\ result.blocks = << Hit("A", "text a", "a.pdf") >>

----------------------------------------------------------------------------
(* Two consecutive tool invocations on one CosmosPermitMetaData instance:  *)
(* hist keeps, for the invocation just made and the one before it, the     *)
(* arguments, the answer of the title search, the catalog the instance     *)
(* holds afterwards, whether the invocation issued the catalog load query, *)
(* and the organization predicates and bindings of the queries executed.   *)

ResolveCalls(organization) ==
    { Call("issue_year", NONE, NoneInt, NoneInt, organization, NONE, NONE, NoneInt, 20240101),
      Call("expiration_year", NONE, NoneInt, NoneInt, organization, NONE, NONE, NoneInt,
           20240101),
      Call("already_expired", NONE, NoneInt, NoneInt, organization, NONE, NONE, NoneInt,
           20240101),
      Call("expiration_interval", "PLO", NoneInt, NoneInt, organization, NONE, NONE, 6,
           20240101),
      WithKeyword(Call("all_by_organization", "PLO", NoneInt, NoneInt, organization,
                       NONE, NONE, NoneInt, NoneInt), "kw") }

(* the tool the agent picked, run on the instance *)
Invoke(c, rows, catalog0, sr) ==
    CASE c.op = "issue_year" -> get_list_documents_by_issue_year(c, rows, catalog0, sr)
      [] c.op = "expiration_year" ->
             get_list_documents_by_expiration_year(c, rows, catalog0, sr)
      [] c.op = "already_expired" ->
             get_list_documents_already_expired(c, rows, catalog0, sr)
      [] c.op = "expiration_interval" ->
             get_list_document_by_expiration_interval(c, rows, catalog0, sr)
      [] OTHER -> get_list_all_documents_by_organization(c, rows, catalog0, sr)

OrgBinding(q) ==
    IF "@organization" \in ParamNames(q.parameters)
    THEN [bound |-> TRUE, value |-> ParamValue(q.parameters, "@organization")]
    ELSE [bound |-> FALSE, value |-> <<>>]

Resolution(c, sr, catalog0, out) ==
    [call |-> c, sr |-> sr, catalog |-> out.main_organization,
     loaded |-> Truthy(c.organization) /\ catalog0 = <<>>,
     predicates |-> [i \in 1..Len(out.queries) |-> OrgConds(out.queries[i])],
     bindings |-> [i \in 1..Len(out.queries) |-> OrgBinding(out.queries[i])]]

Resolve ==
    /\ pc = "idle"
    /\ \E organization \in Organizations \ {NoOrg}, sr \in SearchOutcomes :
        \E c \in ResolveCalls(organization) :
            LET out == Invoke(c, store, main_organization, sr)
            IN  /\ call' = c
                /\ main_organization' = out.main_organization
                /\ queries' = out.queries
                /\ searches' = out.searches
                /\ items' = out.items
                /\ result' = out.result
                /\ hist' = Append(hist, Resolution(c, sr, main_organization, out))
    /\ pc' = "returned"
    /\ UNCHANGED <<store, attempts, lookups, distinct_docs, tasks>>

(* back to the agent; only the latest invocation stays to compare with *)
ResolveReturn ==
    /\ pc = "returned"
    /\ pc' = "idle"
    /\ call' = NoCall
    /\ queries' = <<>>
    /\ searches' = <<>>
    /\ items' = <<>>
    /\ result' = NoResult
    /\ hist' = << hist[Len(hist)] >>
    /\ UNCHANGED <<store, main_organization, attempts, lookups, distinct_docs, tasks>>

NextResolve ==
    \/ Resolve
    \/ ResolveReturn

SpecResolve == Init /\ [][NextResolve]_vars

----------------------------------------------------------------------------
(* C20: two invocations with the same organization string, the same        *)
(* catalog and the same answer of the title search resolve the             *)
(* organization to the same predicates with the same bindings, whatever    *)
(* was invoked before; issued-by-year, whose predicates also depend on the *)
(* other arguments, is compared with issued-by-year.                       *)
C20_SameResolution ==
    (/\ pc = "returned"
     /\ Len(hist) = 2
     /\ hist[1].call.organization = hist[2].call.organization
     /\ hist[1].catalog = hist[2].catalog
     /\ hist[1].sr = hist[2].sr
     /\ \/ hist[1].call = hist[2].call
        \/ "issue_year" \notin {hist[1].call.op, hist[2].call.op}) =>
        /\ hist[1].predicates = hist[2].predicates
        /\ hist[1].bindings = hist[2].bindings

(* reached: the catalog member "PGN" resolved twice in a row on one        *)
(* instance, both times to the equality predicate bound to "PGN"           *)
C20_Witness ==
    /\ pc = "returned"
    /\ Len(hist) = 2
    /\ hist[1].call = hist[2].call
    /\ hist[1].call.op = "already_expired"
    /\ hist[1].call.organization = Org(ORG_PGN)
    /\ hist[1].sr = hist[2].sr
    /\ hist[2].catalog = hist[1].catalog
    /\ hist[2].predicates = << << Cond("c.organization = @organization") >> >>
    /\ hist[2].bindings = << [bound |-> TRUE, value |-> ORG_PGN] >>

----------------------------------------------------------------------------
(* C16: a tool invocation always ends by returning a string; no exception  *)
(* of a backend call leaves the tool function.                             *)
C16_NoExceptionLeavesTool ==
    pc = "returned" => result.kind = "return"

----------------------------------------------------------------------------
(* C21: in issued-by-year with an organization, a first query without rows *)
(* is followed by one title search and, when the search answers, by        *)
(* exactly one second query: the base predicate, the permit-type, year and *)
(* month predicates of the first query once each, and the title allow-list *)
(* in place of the organization predicate.  The no-documents sentence is   *)
(* returned only when the second query has no rows either; a first query   *)
(* with rows is followed by nothing.                                       *)
C21_Others(q) == SelectSeq(q.conditions, LAMBDA c : c.frag \notin OrgFrags)

C21_FallbackAfterEmptyFirstQuery ==
    (pc = "returned" /\ call.op = "issue_year" /\ Truthy(call.organization)) =>
        /\ Len(queries) >= 1
        /\ RowsOf(queries[1]) # <<>> => Len(queries) = 1 /\ searches = <<>>
        /\ RowsOf(queries[1]) = <<>> =>
              /\ Len(searches) = 1
              /\ searches[1].ok =>
                    /\ Len(queries) = 2
                    /\ queries[2].base = "issue"
                    /\ queries[2].conditions
                          = C21_Others(queries[1]) \o << TitleIn(searches[1].value) >>
        /\ result.text = "No documents found issued in this year." =>
              /\ Len(queries) = 2
              /\ RowsOf(queries[1]) = <<>>
              /\ RowsOf(queries[2]) = <<>>

(* reached: the first query of a call with permit type and year matched    *)
(* nothing, the second one with the allow-list matched a record            *)
C21_Witness ==
    /\ Returns
    /\ call.op = "issue_year"
    /\ call.permit_type = "PLO"
    /\ call.operator = "equal"
    /\ call.year = 2020
    /\ Len(queries) = 2
    /\ Len(queries[2].conditions) = 3
    /\ RowsOf(queries[1]) = <<>>
    /\ RowsOf(queries[2]) # <<>>
    /\ result.blocks # <<>>

----------------------------------------------------------------------------
(* C26: in every metadata query executed, the parameters named by the base *)
(* predicate and by the predicate fragments are exactly the parameters     *)
(* bound with the query.                                                   *)
C26_FragRefs(frag) ==
    CASE frag = "c.permitType = @permitType" -> {"@permitType"}
      [] frag \in YearFrags -> {"@year"}
      [] frag = "MONTH(p.issueDate) = @month" -> {"@month"}
      [] frag \in { "c.organization = @organization",
                    "RegexMatch(c.filepath, @organization, 'i')" } -> {"@organization"}
      [] OTHER -> {}

C26_BaseRefs(base) ==
    CASE base = "expired" -> {"@currentDate"}
      [] base = "interval" -> {"@months_ahead", "@documentType"}
      [] OTHER -> {}

C26_Referenced(q) ==
    C26_BaseRefs(q.base) \cup UNION { C26_FragRefs(f) : f \in Frags(q) }

C26_FragmentsAndBindingsAgree ==
    pc = "returned" =>
        \A i \in 1..Len(queries) :
            C26_Referenced(queries[i]) = ParamNames(queries[i].parameters)

----------------------------------------------------------------------------
(* C27: in every operation a failed title search ends the invocation with  *)
(* a raised failure: no title allow-list is built from it, no sentence or  *)
(* list is returned, and the only metadata query of the invocation is the  *)
(* first query of issued-by-year, which precedes the search.               *)
C27_SearchFailureRaised ==
    (pc = "returned" /\ \E i \in 1..Len(searches) : ~searches[i].ok) =>
        /\ result.kind = "raise"
        /\ Len(searches) = 1
        /\ Len(queries) = IF call.op = "issue_year" THEN 1 ELSE 0
        /\ \A i \in 1..Len(queries) : "c.documentTitle IN" \notin Frags(queries[i])

(* reached: already-expired for an organization outside the catalog, the   *)
(* title search failed, the call raised without a query                    *)
C27_Witness ==
    /\ pc = "returned"
    /\ call.op = "already_expired"
    /\ call.organization = Org(ORG_UNKNOWN)
    /\ Len(searches) = 1
    /\ ~searches[1].ok
    /\ queries = <<>>
    /\ result.kind = "raise"

----------------------------------------------------------------------------
(* C28: an already-expired invocation that returns has executed exactly    *)
(* one metadata query and at most one title search; without rows it        *)
(* returns "No documents have expired.", and with rows the date of its     *)
(* "Now is ..." header is the date bound to @currentDate in the query.     *)
C28_OneQueryOneDate ==
    (Returns /\ call.op = "already_expired") =>
        /\ Len(queries) = 1
        /\ Len(searches) <= 1
        /\ queries[1].base = "expired"
        /\ IF RowsOf(queries[1]) = <<>>
           THEN result.text = "No documents have expired." /\ result.blocks = <<>>
           ELSE /\ result.text = "Now is {n}. The following documents have already expired:"
                /\ result.n = ParamValue(queries[1].parameters, "@currentDate")
                /\ result.n = call.today

(* reached: a title search, one query, expired permits listed under the    *)
(* date of the call                                                        *)
C28_Witness ==
    /\ Returns
    /\ call.op = "already_expired"
    /\ Len(searches) = 1
    /\ Len(queries) = 1
    /\ result.blocks # <<>>
    /\ result.n = 20240101

----------------------------------------------------------------------------
(* C30: in every issued-by-year result that lists records, the number of   *)
(* the header "List of documents issued is N items:" is the number of      *)
(* record blocks under it, at most 20, whatever the number of records the  *)
(* query matched.                                                          *)
C30_HeaderCountsRenderedBlocks ==
    (Returns /\ call.op = "issue_year" /\ result.blocks # <<>>) =>
        /\ result.text = "List of documents issued is {n} items:"
        /\ result.n = Len(result.blocks)
        /\ result.n <= 20
        /\ result.n = Min(Len(items), 20)
        /\ \A i \in 1..Len(result.blocks) : result.blocks[i] = items[i]

(* reached: more than 20 records matched, 20 rendered and counted *)
C30_Witness ==
    /\ Returns
    /\ call.op = "issue_year"
    /\ Len(items) > 20
    /\ Len(result.blocks) = 20
    /\ result.n = 20

----------------------------------------------------------------------------
(* C23: of two invocations made one after the other on one instance, the   *)
(* second never issues the catalog load query when the first did, and      *)
(* finds the catalog the first left, also when the load returned no        *)
(* organization.                                                           *)
C23_LoadedAtMostOnce ==
    (pc = "returned" /\ Len(hist) = 2 /\ hist[1].loaded) =>
        /\ ~hist[2].loaded
        /\ hist[2].catalog = hist[1].catalog

----------------------------------------------------------------------------
(* The steps of concurrent invocations *)

TaskClock == 20240101

(* a tool invocation starts and runs up to its first network call *)
TaskInvoke ==
    /\ \E p \in Tasks, op \in TaskOps, organization \in TaskOrgs :
        /\ tasks[p].pc = "none"
        /\ LET t == [NoTask EXCEPT !.op = op, !.organization = organization]
           IN  tasks' = [tasks EXCEPT ![p] =
                   IF needs_load(main_organization)
                   THEN [t EXCEPT !.pc = "loading", !.net = << Begin("load") >>]
                   ELSE after_ensure(t, main_organization)]
    /\ UNCHANGED <<store, main_organization, pc, call, queries, searches, items, result,
                   attempts, lookups, distinct_docs, hist>>

(* async for item in iterators: one more organization of the load query *)
LoadItem ==
    /\ \E p \in Tasks :
        /\ tasks[p].pc = "loading"
        /\ Len(tasks[p].batch) < Len(load_main_organizations(store))
        /\ LET batch == Append(tasks[p].batch,
                               load_main_organizations(store)[Len(tasks[p].batch) + 1])
           IN  /\ tasks' = [tasks EXCEPT ![p].batch = batch]
               /\ main_organization' = during_load(main_organization, batch)
    /\ UNCHANGED <<store, pc, call, queries, searches, items, result,
                   attempts, lookups, distinct_docs, hist>>

(* the load query is drained: self.main_organization = items if items else [] *)
LoadEnd ==
    /\ \E p \in Tasks :
        /\ tasks[p].pc = "loading"
        /\ Len(tasks[p].batch) = Len(load_main_organizations(store))
        /\ main_organization' = tasks[p].batch
        /\ tasks' = [tasks EXCEPT ![p] =
               after_ensure([tasks[p] EXCEPT
                                !.net = Append(@, End("load", Len(tasks[p].batch)))],
                            tasks[p].batch)]
    /\ UNCHANGED <<store, pc, call, queries, searches, items, result,
                   attempts, lookups, distinct_docs, hist>>

(* the first query of issued-by-year has answered *)
FirstQueryEnd ==
    /\ \E p \in Tasks :
        /\ tasks[p].pc = "query1"
        /\ LET rows == query_items(store, tasks[p].q, TaskClock)
               t == [tasks[p] EXCEPT !.net = Append(@, End("query", Len(rows)))]
           IN  tasks' = [tasks EXCEPT ![p] =
                   IF after_first_query(rows) = "search"
                   THEN [t EXCEPT !.net = Append(@, Begin("search")), !.pc = "search"]
                   ELSE [t EXCEPT !.pc = "done", !.kind = "return"]]
    /\ UNCHANGED <<store, main_organization, pc, call, queries, searches, items, result,
                   attempts, lookups, distinct_docs, hist>>

(* the title search has answered or failed *)
SearchEnd ==
    /\ \E p \in Tasks, sr \in SearchOutcomes :
        /\ tasks[p].pc = "search"
        /\ tasks' = [tasks EXCEPT ![p] = after_search(tasks[p], sr)]
    /\ UNCHANGED <<store, main_organization, pc, call, queries, searches, items, result,
                   attempts, lookups, distinct_docs, hist>>

(* the last query of the invocation has answered *)
QueryEnd ==
    /\ \E p \in Tasks :
        /\ tasks[p].pc = "query"
        /\ LET rows == query_items(store, tasks[p].q, TaskClock)
           IN  tasks' = [tasks EXCEPT ![p] =
                   [tasks[p] EXCEPT !.net = Append(@, End("query", Len(rows))),
                                    !.pc = "done", !.kind = "return"]]
    /\ UNCHANGED <<store, main_organization, pc, call, queries, searches, items, result,
                   attempts, lookups, distinct_docs, hist>>

(* the string or the exception is with the agent *)
TaskReturn ==
    /\ \E p \in Tasks :
        /\ tasks[p].pc = "done"
        /\ tasks' = [tasks EXCEPT ![p] = NoTask]
    /\ UNCHANGED <<store, main_organization, pc, call, queries, searches, items, result,
                   attempts, lookups, distinct_docs, hist>>

NextTasks ==
    \/ TaskInvoke
    \/ LoadItem
    \/ LoadEnd
    \/ FirstQueryEnd
    \/ SearchEnd
    \/ QueryEnd
    \/ TaskReturn

(* stores of at most two permits, of the organizations "PGN" and "RU" *)
TaskStores ==
    { s \in SmallStores :
        Len(s) <= 2 /\ \A i \in 1..Len(s) : s[i].permitNumber \in {1, 3} }

InitTasks == Init /\ store \in TaskStores

SpecTasks == InitTasks /\ [][NextTasks]_vars

----------------------------------------------------------------------------
(* C22: when the store holds an organization, the catalog load query is    *)
(* issued by at most one of the invocations in progress: an invocation     *)
(* that arrives while a load is in flight waits for it.                    *)
C22_Loaders == { p \in Tasks : \E i \in 1..Len(tasks[p].net) : tasks[p].net[i].call = "load" }

C22_SingleFlightLoad ==
    store # <<>> => Cardinality(C22_Loaders) <= 1

----------------------------------------------------------------------------
(* C24: the shared catalog is always the initial empty list or the         *)
(* complete list of the distinct organizations of the store, and so is the *)
(* catalog every invocation saw at its membership test, whatever loads are *)
(* in flight.                                                              *)
C24_Organizations == { store[i].organization : i \in 1..Len(store) }

C24_Complete(catalog) ==
    /\ SeqToSet(catalog) = C24_Organizations
    /\ Len(catalog) = Cardinality(C24_Organizations)

C24_CatalogNeverPartial ==
    /\ main_organization = <<>> \/ C24_Complete(main_organization)
    /\ \A p \in Tasks :
          tasks[p].tested => tasks[p].seen = <<>> \/ C24_Complete(tasks[p].seen)

(* reached: one load has finished and filled the catalog with two          *)
(* organizations while a second load has fetched the first of them         *)
C24_Witness ==
    /\ Len(main_organization) = 2
    /\ tasks[1].tested
    /\ tasks[1].seen = main_organization
    /\ tasks[2].pc = "loading"
    /\ Len(tasks[2].batch) = 1

----------------------------------------------------------------------------
(* C25: the network calls of one issued-by-year invocation are issued one  *)
(* after the other, each after the answer of the one before, in the order  *)
(* catalog load (if needed), first query, title search, second query; the  *)
(* title search only after the first query answered with zero rows, the    *)
(* second query only after the title search returned.                      *)
C25_Order(net) ==
    /\ \A i \in 1..Len(net) :
          IF i % 2 = 1 THEN net[i].phase = "begin"
          ELSE net[i].phase = "end" /\ net[i].call = net[i - 1].call
    /\ LET calls == [k \in 1..((Len(net) + 1) \div 2) |-> net[2 * k - 1].call]
           full == IF net # <<>> /\ net[1].call = "load"
                   THEN << "load", "query", "search", "query" >>
                   ELSE << "query", "search", "query" >>
       IN  Len(calls) <= Len(full) /\ calls = SubSeq(full, 1, Len(calls))
    /\ \A i \in 1..Len(net) :
          (net[i].phase = "begin" /\ net[i].call = "search") =>
              i > 1 /\ net[i - 1] = End("query", 0)
    /\ \A i \in 2..Len(net) :
          (net[i].phase = "begin" /\ net[i - 1].call = "search") =>
              net[i].call = "query" /\ net[i - 1].n >= 0

C25_CallsInFixedOrder ==
    \A p \in Tasks : tasks[p].op = "issue_year" => C25_Order(tasks[p].net)

(* reached: an invocation that made all four calls while another           *)
(* invocation was in progress                                              *)
C25_Witness ==
    /\ tasks[1].op = "issue_year"
    /\ tasks[1].pc = "done"
    /\ Len(tasks[1].net) = 8
    /\ tasks[1].net[1].call = "load"
    /\ tasks[2].pc \notin {"none", "done"}

----------------------------------------------------------------------------
(* C29: when the store holds an organization, every membership test is     *)
(* made on the complete catalog, so an organization is a member for an     *)
(* invocation exactly when the store holds it, whatever else is in         *)
(* progress.                                                               *)
C29_MembershipOnLoadedCatalog ==
    store # <<>> =>
        \A p \in Tasks :
            tasks[p].tested =>
                /\ C24_Complete(tasks[p].seen)
                /\ tasks[p].member = (tasks[p].organization \in C24_Organizations)

(* reached: two invocations for "PGN" that both loaded the catalog at the  *)
(* same time and both resolved by equality                                 *)
C29_Witness ==
    /\ \A p \in {1, 2} :
          /\ tasks[p].op = "expiration_interval"
          /\ tasks[p].organization = ORG_PGN
          /\ tasks[p].net[1].call = "load"
          /\ tasks[p].member
          /\ tasks[p].pc = "query"
    /\ Len(main_organization) = 2

====
